---- MODULE Spec2Model ----
(***************************************************************************)
(* Control plane of the GStreamer compositor (src/app.py): the pipeline    *)
(* builder build_pipeline, the process manager start_gst / stop_gst over   *)
(* the globals GST_PROCESS and GST_LOCK, and the Flask handlers /start,    *)
(* /stop and /update, each request running on its own thread.              *)
(***************************************************************************)
EXTENDS Integers, Sequences, FiniteSets, TLC

\* ------------------------------------------------------------------ bounds
NumThreads == 2      \* request threads served concurrently
MaxWorkers == 2      \* worker processes the host lets the service spawn
MaxSel == 7          \* longest composite handed to build_pipeline on its own

Threads == 1..NumThreads
None == 0            \* GST_PROCESS = None
NoThread == 0        \* GST_LOCK is free

\* ------------------------------------------------------- JSON-ish values
JNull == [type |-> "null", items |-> <<>>]
JStr(s) == [type |-> "string", items |-> <<s>>]
JList(s) == [type |-> "list", items |-> s]
\* the composite of a request body that the handler has not looked at yet
Unread == [type |-> "unread", items |-> <<>>]

\* Python truthiness of a request value: None and [] are falsy
Truthy(v) == v.type # "null" /\ Len(v.items) > 0
IsList(v) == v.type = "list"

\* --------------------------------------------------------- configuration
Catalog ==
  << [name |-> "cam1", url |-> "rtsp://a"],
     [name |-> "cam2", url |-> "rtsp://b"],
     [name |-> "cam3", url |-> "rtsp://c"] >>

NoStun == "absent"
DefaultStun == "stun:stun.l.google.com:19302"

\* what load_config() may return: the file is read afresh by every request
\* (the configurations of the model differ in their default composite only)
Webrtc == "stun:custom"
Configs ==
  { [feeds |-> Catalog, composite |-> <<"cam1", "cam3", "cam9">>, webrtc |-> Webrtc],
    [feeds |-> Catalog, composite |-> <<"cam9">>, webrtc |-> Webrtc],
    [feeds |-> Catalog, composite |-> <<>>, webrtc |-> Webrtc] }

\* the "composite" member of the JSON body of POST /update
UpdateBodies ==
  { JNull, JList(<<>>), JStr("cam1"),
    JList(<<"cam9">>), JList(<<"cam2", "cam9", "cam1">>) }

\* ------------------------------------------------------- build_pipeline
\* feed_map = {f['name']: f['url'] for f in feeds}: the last entry of a name wins
FeedNames(feeds) == { feeds[i].name : i \in 1..Len(feeds) }
FeedUrl(feeds, name) ==
  LET idx == { i \in 1..Len(feeds) : feeds[i].name = name }
      last == CHOOSE i \in idx : \A j \in idx : j <= i
  IN feeds[last].url

\* a selection made by walking the catalog: the urls of the feeds the
\* composite names, in catalog order
RECURSIVE SelectedUrlsByCatalog(_, _)
SelectedUrlsByCatalog(feeds, composite) ==
  IF feeds = <<>> THEN <<>>
  ELSE LET rest == SelectedUrlsByCatalog(Tail(feeds), composite)
       IN IF \E i \in 1..Len(composite) : composite[i] = Head(feeds).name
            THEN <<Head(feeds).url>> \o rest ELSE rest

\* selected_urls = [feed_map[name] for name in composite if name in feed_map]
RECURSIVE SelectedUrls(_, _)
SelectedUrls(feeds, composite) ==
  IF composite = <<>> THEN <<>>
  ELSE LET name == Head(composite)
           rest == SelectedUrls(feeds, Tail(composite))
       IN IF name \in FeedNames(feeds) THEN <<FeedUrl(feeds, name)>> \o rest ELSE rest

\* one decode chain per selected url, ending in "queue name=q{idx}"
SourcePart(idx, url) == [stage |-> "rtspsrc", location |-> url, queue |-> idx]

\* a grid of two columns
SinkPosTwoColumns(i) == [sink |-> i, xpos |-> (i % 2) * 640, ypos |-> (i \div 2) * 360]

\* "compositor name=mix sink_0::xpos=0 sink_0::ypos=0 " then sink_i for i in 1..n-1
SinkPos(i) == IF i = 0 THEN [sink |-> 0, xpos |-> 0, ypos |-> 0]
              ELSE [sink |-> i, xpos |-> (i % 3) * 640, ypos |-> (i \div 3) * 360]
Compositor(n) ==
  [stage |-> "compositor", sinks |-> [k \in 1..(IF n = 0 THEN 1 ELSE n) |-> SinkPos(k - 1)]]

\* stun = webrtc.get('stun_server', 'stun:stun.l.google.com:19302')
StunServer(webrtc) == IF webrtc = NoStun THEN DefaultStun ELSE webrtc
WebrtcSignaling(webrtc) == [stage |-> "stun-server", server |-> StunServer(webrtc)]

\* a check of the raw selection instead of the filtered one
BuildFailsOnRawEmpty(feeds, composite) == composite = <<>>

\* lines 55-56: "if not selected_urls: raise ValueError"
BuildFails(feeds, composite) == SelectedUrls(feeds, composite) = <<>>

\* a pipeline string with the transport setting ahead of the compositor
BuildPipelineTransportFirst(feeds, composite, webrtc) ==
  LET urls == SelectedUrls(feeds, composite)
  IN [i \in 1..Len(urls) |-> SourcePart(i - 1, urls[i])]
       \o << WebrtcSignaling(webrtc), Compositor(Len(urls)) >>

\* the pipeline string, as the sequence of its parts in textual order
BuildPipeline(feeds, composite, webrtc) ==
  LET urls == SelectedUrls(feeds, composite)
  IN [i \in 1..Len(urls) |-> SourcePart(i - 1, urls[i])]
       \o << Compositor(Len(urls)), WebrtcSignaling(webrtc) >>

\* ------------------------------------- build_pipeline called on its own
\* feed lists a configuration file may hold: the usual one, one that names
\* cam1 twice, and an empty one
CatalogTwice ==
  << [name |-> "cam1", url |-> "rtsp://old"],
     [name |-> "cam3", url |-> "rtsp://c"],
     [name |-> "cam1", url |-> "rtsp://a"] >>
Catalogs == { Catalog, CatalogTwice, <<>> }

\* the webrtc section with and without a stun_server entry
WebrtcSettings == { Webrtc, NoStun }

\* composites: every list of at most MaxSel of these names, cam9 in no catalog
SelNames == { "cam1", "cam3", "cam9" }
Selections == UNION { [1..n -> SelNames] : n \in 0..MaxSel }

NoBuild ==
  [feeds |-> <<>>, composite |-> <<>>, webrtc |-> NoStun,
   state |-> "none", pipeline |-> <<>>]
BuildCall(feeds, composite, webrtc) ==
  [feeds |-> feeds, composite |-> composite, webrtc |-> webrtc,
   state |-> "call", pipeline |-> <<>>]

\* ------------------------------------------------------------ responses
Resp(code, tag) == [status |-> code, body |-> tag]
NoResp == Resp(0, "none")
NoLast == [kind |-> "none", resp |-> NoResp]

StartResponse(ok) ==
  IF ok THEN Resp(200, "started") ELSE Resp(400, "already running or error")
StopResponse(ok) ==
  IF ok THEN Resp(200, "stopped") ELSE Resp(400, "not running")
InvalidResponse == Resp(400, "invalid composite")
UpdateResponse(ok) ==
  IF ok THEN Resp(200, "updated") ELSE Resp(500, "failed to update")

\* ------------------------------------------------------------------ state
VARIABLES
  GST_PROCESS,  \* the handle: None or the index in procs of the held worker
  GST_LOCK,     \* the thread holding the lock, or NoThread
  procs,        \* every worker spawned so far: [alive, pipeline, signals]
  pc,           \* per thread: where its request handler stands
  kind,         \* per thread: "start", "stop", "update" or "none"
  comp,         \* per thread: the composite of the request
  ret,          \* per thread: value returned by the last start_gst / stop_gst
  resp,         \* per thread: the response the handler is about to send
  lastResp,     \* the last response sent while no other request was in flight,
                \* with its request kind; forgotten once two requests overlap
  build         \* a call of build_pipeline taken on its own: its arguments and
                \* its outcome (NoBuild while the service is what is examined)

vars == <<GST_PROCESS, GST_LOCK, procs, pc, kind, comp, ret, resp, lastResp, build>>

shared == <<GST_PROCESS, GST_LOCK, procs>>

Init ==
  /\ GST_PROCESS = None
  /\ GST_LOCK = NoThread
  /\ procs = <<>>
  /\ pc = [t \in Threads |-> "idle"]
  /\ kind = [t \in Threads |-> "none"]
  /\ comp = [t \in Threads |-> JNull]
  /\ ret = [t \in Threads |-> FALSE]
  /\ resp = [t \in Threads |-> NoResp]
  /\ lastResp = NoLast
  /\ build = NoBuild

Goto(t, label) == pc' = [pc EXCEPT ![t] = label]

\* no request is in flight on another thread
Alone(t) == \A u \in Threads \ {t} : pc[u] = "idle"

\* a request is handed to the first free thread
FirstFree(t) == pc[t] = "idle" /\ \A u \in Threads : u < t => pc[u] # "idle"

\* a request that starts while another is in flight ends the quiet history
Overlap(t) == lastResp' = IF Alone(t) THEN lastResp ELSE NoLast

\* ---------------------------------------------------------- the lock
\* a with block that leaves without releasing the lock
ReleaseKeeps(t) == GST_LOCK' = GST_LOCK

\* a lock that does not block: the thread enters whoever holds it
AcquireNoWait(t) == GST_LOCK' = t

\* "with GST_LOCK:" blocks until the lock is free
LockFree == GST_LOCK = NoThread
Acquire(t) == LockFree /\ GST_LOCK' = t
Release(t) == GST_LOCK' = NoThread

\* --------------------------------------------- start_gst, before the lock
\* handlers that answer success whatever start_gst returned
StartResultAlwaysOk(k, ok) ==
  IF k = "start" THEN StartResponse(TRUE) ELSE UpdateResponse(TRUE)

\* the handler's answer to start_gst's result: lines 141-144 and 188-191
StartResult(k, ok) ==
  IF k = "start" THEN StartResponse(ok) ELSE UpdateResponse(ok)

\* lines 88-93: start_gst builds the pipeline of composite c before it takes
\* the lock; any exception of build_pipeline is logged and returns False
StartBuild(t, k, c) ==
  IF BuildFails(Catalog, c.items)
    THEN /\ ret' = [ret EXCEPT ![t] = FALSE]
         /\ resp' = [resp EXCEPT ![t] = StartResult(k, FALSE)]
         /\ Goto(t, "reply")
    ELSE /\ Goto(t, "s_acquire")
         /\ UNCHANGED <<ret, resp>>

\* ------------------------------------------------------- request entry
\* POST /start, lines 137-141 and 88-93: load the configuration, call
\* start_gst, which builds the pipeline
BeginStart(t) ==
  /\ FirstFree(t)
  /\ \E cfg \in Configs :
       /\ comp' = [comp EXCEPT ![t] = JList(cfg.composite)]
       /\ StartBuild(t, "start", JList(cfg.composite))
  /\ kind' = [kind EXCEPT ![t] = "start"]
  /\ Overlap(t)
  /\ UNCHANGED <<shared, build>>

\* POST /stop, line 157: call stop_gst
BeginStop(t) ==
  /\ FirstFree(t)
  /\ kind' = [kind EXCEPT ![t] = "stop"]
  /\ Goto(t, "t_acquire")
  /\ Overlap(t)
  /\ UNCHANGED <<shared, comp, ret, resp, build>>

\* POST /update, lines 179-184: take the body and the configuration, call
\* stop_gst. Nothing looks at the body's composite before line 185, where
\* UpdateValidate draws it.
BeginUpdate(t) ==
  /\ FirstFree(t)
  /\ comp' = [comp EXCEPT ![t] = Unread]
  /\ kind' = [kind EXCEPT ![t] = "update"]
  /\ Goto(t, "t_acquire")
  /\ Overlap(t)
  /\ UNCHANGED <<shared, ret, resp, build>>

\* ------------------------------------------------------------ stop_gst
StopAcquire(t) ==
  /\ pc[t] = "t_acquire"
  /\ Acquire(t)
  /\ Goto(t, "t_check")
  /\ UNCHANGED <<GST_PROCESS, procs, kind, comp, ret, resp, lastResp, build>>

\* line 112 "if GST_PROCESS:", and lines 122-124 when there is none
StopCheck(t) ==
  /\ pc[t] = "t_check"
  /\ IF GST_PROCESS # None
       THEN Goto(t, "t_terminate") /\ UNCHANGED ret
       ELSE Goto(t, "t_release") /\ ret' = [ret EXCEPT ![t] = FALSE]
  /\ UNCHANGED <<shared, kind, comp, resp, lastResp, build>>

\* what terminate() followed by wait(timeout=5) can do to worker w
\*   "exited":  the worker exits within the wait
\*   "timeout": SIGTERM is delivered, the worker outlives the wait (TimeoutExpired)
\*   "error":   terminate() raises before a signal is delivered
\* terminate() on a worker that has already exited sends nothing and wait returns
TerminateOutcomes(w) ==
  IF procs[w].alive THEN {"exited", "timeout", "error"} ELSE {"exited"}
Terminated(w, outcome) ==
  IF ~procs[w].alive THEN procs
  ELSE [procs EXCEPT ![w] =
          [@ EXCEPT !.alive = (outcome # "exited"),
                    !.signals = IF outcome = "error" THEN @ ELSE @ + 1]]

\* a try block that lets TimeoutExpired and the errors of terminate() escape:
\* the handle is kept and stop_gst does not return True
StopTerminateRaises(t) ==
  /\ pc[t] = "t_terminate"
  /\ \E outcome \in TerminateOutcomes(GST_PROCESS) :
       /\ procs' = Terminated(GST_PROCESS, outcome)
       /\ IF outcome = "exited" THEN Goto(t, "t_clear") ELSE Goto(t, "t_release")
  /\ UNCHANGED <<GST_PROCESS, GST_LOCK, kind, comp, ret, resp, lastResp, build>>

\* lines 113-119: the try block; every exception is caught and logged
StopTerminate(t) ==
  /\ pc[t] = "t_terminate"
  /\ \E outcome \in TerminateOutcomes(GST_PROCESS) :
       procs' = Terminated(GST_PROCESS, outcome)
  /\ Goto(t, "t_clear")
  /\ UNCHANGED <<GST_PROCESS, GST_LOCK, kind, comp, ret, resp, lastResp, build>>

\* a stop that reports success and forgets to drop the handle
StopClearKeeps(t) ==
  /\ pc[t] = "t_clear"
  /\ ret' = [ret EXCEPT ![t] = TRUE]
  /\ Goto(t, "t_release")
  /\ UNCHANGED <<GST_PROCESS, GST_LOCK, procs, kind, comp, resp, lastResp, build>>

\* a stop that drops the handle only when the worker has exited
StopClearIfExited(t) ==
  /\ pc[t] = "t_clear"
  /\ GST_PROCESS' = IF procs[GST_PROCESS].alive THEN GST_PROCESS ELSE None
  /\ ret' = [ret EXCEPT ![t] = TRUE]
  /\ Goto(t, "t_release")
  /\ UNCHANGED <<GST_LOCK, procs, kind, comp, resp, lastResp, build>>

\* lines 120-121: GST_PROCESS = None; return True
StopClear(t) ==
  /\ pc[t] = "t_clear"
  /\ GST_PROCESS' = None
  /\ ret' = [ret EXCEPT ![t] = TRUE]
  /\ Goto(t, "t_release")
  /\ UNCHANGED <<GST_LOCK, procs, kind, comp, resp, lastResp, build>>

\* an /update that gives up when its stop_gst found nothing to stop
StopReleaseAborts(t) ==
  /\ pc[t] = "t_release"
  /\ Release(t)
  /\ IF kind[t] = "stop" \/ ~ret[t]
       THEN /\ resp' = [resp EXCEPT ![t] = StopResponse(ret[t])]
            /\ Goto(t, "reply")
            /\ UNCHANGED ret
       ELSE /\ ret' = [ret EXCEPT ![t] = FALSE]
            /\ Goto(t, "u_validate")
            /\ UNCHANGED resp
  /\ UNCHANGED <<GST_PROCESS, procs, kind, comp, lastResp, build>>

\* leaving the with block; /stop answers with the result (lines 157-160),
\* /update drops it (line 184) and goes on to validate the body
StopRelease(t) ==
  /\ pc[t] = "t_release"
  /\ Release(t)
  /\ IF kind[t] = "stop"
       THEN /\ resp' = [resp EXCEPT ![t] = StopResponse(ret[t])]
            /\ Goto(t, "reply")
            /\ UNCHANGED ret
       ELSE /\ ret' = [ret EXCEPT ![t] = FALSE]
            /\ Goto(t, "u_validate")
            /\ UNCHANGED resp
  /\ UNCHANGED <<GST_PROCESS, procs, kind, comp, lastResp, build>>

\* ------------------------------------------------------------- /update
\* a validation that tests "if not composite" alone
InvalidCompositeNoType(v) == ~Truthy(v)

\* line 185: "if not composite or not isinstance(composite, list)"
InvalidComposite(v) == ~Truthy(v) \/ ~IsList(v)

\* lines 185-188 and 88-93: reject a malformed composite with 400, else call
\* start_gst, which builds the pipeline
UpdateValidate(t) ==
  /\ pc[t] = "u_validate"
  /\ \E body \in UpdateBodies :
       /\ comp' = [comp EXCEPT ![t] = body]
       /\ IF InvalidComposite(body)
            THEN /\ resp' = [resp EXCEPT ![t] = InvalidResponse]
                 /\ Goto(t, "reply")
                 /\ UNCHANGED ret
            ELSE StartBuild(t, "update", body)
  /\ UNCHANGED <<shared, kind, lastResp, build>>

\* ------------------------------------------------- start_gst, locked part
StartAcquire(t) ==
  /\ pc[t] = "s_acquire"
  /\ Acquire(t)
  /\ Goto(t, "s_check")
  /\ UNCHANGED <<GST_PROCESS, procs, kind, comp, ret, resp, lastResp, build>>

\* a start that does not look at the handle and spawns over a running worker
StartCheckReplaces(t) ==
  /\ pc[t] = "s_check"
  /\ Goto(t, "s_spawn")
  /\ UNCHANGED <<shared, kind, comp, ret, resp, lastResp, build>>

\* lines 95-97: "if GST_PROCESS:" warns and returns False
StartCheck(t) ==
  /\ pc[t] = "s_check"
  /\ IF GST_PROCESS # None
       THEN Goto(t, "s_release") /\ ret' = [ret EXCEPT ![t] = FALSE]
       ELSE Goto(t, "s_spawn") /\ UNCHANGED ret
  /\ UNCHANGED <<shared, kind, comp, resp, lastResp, build>>

NewWorker(t) ==
  [alive |-> TRUE,
   pipeline |-> BuildPipeline(Catalog, comp[t].items, Webrtc),
   signals |-> 0]

\* lines 98-105: subprocess.Popen either returns a handle or raises
SpawnOk(t) ==
  /\ Len(procs) < MaxWorkers
  /\ procs' = Append(procs, NewWorker(t))
  /\ GST_PROCESS' = Len(procs) + 1
  /\ ret' = [ret EXCEPT ![t] = TRUE]

\* a failed spawn that start_gst reports as a success
SpawnFailsReportsTrue(t) ==
  /\ GST_PROCESS' = None
  /\ ret' = [ret EXCEPT ![t] = TRUE]
  /\ UNCHANGED procs

SpawnFails(t) ==
  /\ GST_PROCESS' = None
  /\ ret' = [ret EXCEPT ![t] = FALSE]
  /\ UNCHANGED procs

StartSpawn(t) ==
  /\ pc[t] = "s_spawn"
  /\ (SpawnOk(t) \/ SpawnFails(t))
  /\ Goto(t, "s_release")
  /\ UNCHANGED <<GST_LOCK, kind, comp, resp, lastResp, build>>

\* leaving the with block and returning to the handler
StartRelease(t) ==
  /\ pc[t] = "s_release"
  /\ Release(t)
  /\ resp' = [resp EXCEPT ![t] = StartResult(kind[t], ret[t])]
  /\ Goto(t, "reply")
  /\ UNCHANGED <<GST_PROCESS, procs, kind, comp, ret, lastResp, build>>

\* --------------------------------------------------------------- reply
\* the handler returns its response and the thread is free for a new request
Reply(t) ==
  /\ pc[t] = "reply"
  /\ lastResp' = IF Alone(t) THEN [kind |-> kind[t], resp |-> resp[t]] ELSE NoLast
  /\ Goto(t, "idle")
  /\ kind' = [kind EXCEPT ![t] = "none"]
  /\ comp' = [comp EXCEPT ![t] = JNull]
  /\ ret' = [ret EXCEPT ![t] = FALSE]
  /\ resp' = [resp EXCEPT ![t] = NoResp]
  /\ UNCHANGED <<shared, build>>

\* --------------------------------------------------------- environment
\* a service that is told of the exit and forgets the worker's handle
WorkerExitClearsHandle ==
  /\ \E w \in 1..Len(procs) :
       /\ procs[w].alive
       /\ procs' = [procs EXCEPT ![w].alive = FALSE]
       /\ GST_PROCESS' = IF GST_PROCESS = w THEN None ELSE GST_PROCESS
  /\ UNCHANGED <<GST_LOCK, pc, kind, comp, ret, resp, lastResp, build>>

\* a worker process may exit by itself at any time; nothing tells the service
WorkerExit ==
  /\ \E w \in 1..Len(procs) :
       /\ procs[w].alive
       /\ procs' = [procs EXCEPT ![w].alive = FALSE]
  /\ UNCHANGED <<GST_PROCESS, GST_LOCK, pc, kind, comp, ret, resp, lastResp, build>>

Begin(t) == BeginStart(t) \/ BeginStop(t) \/ BeginUpdate(t)

Step(t) ==
  \/ StopAcquire(t) \/ StopCheck(t) \/ StopTerminate(t) \/ StopClear(t) \/ StopRelease(t)
  \/ UpdateValidate(t)
  \/ StartAcquire(t) \/ StartCheck(t) \/ StartSpawn(t) \/ StartRelease(t)
  \/ Reply(t)

Next == (\E t \in Threads : Begin(t) \/ Step(t)) \/ WorkerExit

Spec == Init /\ [][Next]_vars

\* requests arriving one at a time: a request begins only when no other is in flight
NextSeq == (\E t \in Threads : (Alone(t) /\ Begin(t)) \/ Step(t)) \/ WorkerExit
SpecSeq == Init /\ [][NextSeq]_vars

\* fair scheduling: a thread that can take a step of its handler takes one
\* sooner or later, and a thread waiting for GST_LOCK gets it if the lock is
\* free again and again. Requests need not arrive and workers need not exit.
Fairness ==
  \A t \in Threads :
    /\ WF_vars(Step(t))
    /\ SF_vars(StopAcquire(t))
    /\ SF_vars(StartAcquire(t))
SpecFair == Init /\ [][Next]_vars /\ Fairness

\* ------------------------------------- build_pipeline called on its own
InitBuild ==
  /\ GST_PROCESS = None
  /\ GST_LOCK = NoThread
  /\ procs = <<>>
  /\ pc = [t \in Threads |-> "idle"]
  /\ kind = [t \in Threads |-> "none"]
  /\ comp = [t \in Threads |-> JNull]
  /\ ret = [t \in Threads |-> FALSE]
  /\ resp = [t \in Threads |-> NoResp]
  /\ lastResp = NoLast
  /\ \E feeds \in Catalogs, composite \in Selections, webrtc \in WebrtcSettings :
       build = BuildCall(feeds, composite, webrtc)

\* lines 55-56: ValueError("No valid feeds selected for composite.")
BuildRaises ==
  /\ build.state = "call"
  /\ BuildFails(build.feeds, build.composite)
  /\ build' = [build EXCEPT !.state = "raised"]
  /\ UNCHANGED <<GST_PROCESS, GST_LOCK, procs, pc, kind, comp, ret, resp, lastResp>>

\* lines 59-83: the pipeline string is assembled and returned
BuildReturns ==
  /\ build.state = "call"
  /\ ~BuildFails(build.feeds, build.composite)
  /\ build' = [build EXCEPT !.state = "returned",
                            !.pipeline = BuildPipeline(build.feeds, build.composite, build.webrtc)]
  /\ UNCHANGED <<GST_PROCESS, GST_LOCK, procs, pc, kind, comp, ret, resp, lastResp>>

NextBuild == BuildRaises \/ BuildReturns
SpecBuild == InitBuild /\ [][NextBuild]_vars

\* ================================================================ claims
\* the pcs inside "with GST_LOCK:" of stop_gst and of start_gst
StopSection == {"t_check", "t_terminate", "t_clear", "t_release"}
StartSection == {"s_check", "s_spawn", "s_release"}
InCS(t) == pc[t] \in StopSection \cup StartSection

Workers == 1..Len(procs)
Alive == { w \in Workers : procs[w].alive }

\* thread t takes a step of its own
Moves(t) == pc'[t] # pc[t]

Known(name) == \E i \in 1..Len(Catalog) : Catalog[i].name = name
HasKnownFeed(v) == v.type = "list" /\ \E i \in 1..Len(v.items) : Known(v.items[i])
NoKnownFeed(v) == v.type = "list" /\ \A i \in 1..Len(v.items) : ~Known(v.items[i])
\* a composite that is missing, empty or not a list
Malformed(v) == v.type = "null" \/ v.type = "string" \/ v = JList(<<>>)

GraphOf(t) == BuildPipeline(Catalog, comp[t].items, Webrtc)

\* C1: process uniqueness: at most one spawned worker is alive in any
\* reachable state, also after a stop whose wait timed out.
C1_ProcessUniqueness == Cardinality(Alive) <= 1

\* an /update that has left stop_gst and waits to enter start_gst's section
BetweenStopAndStart(t) ==
  kind[t] = "update" /\ HasKnownFeed(comp[t]) /\ pc[t] = "s_acquire"
\* C2: replace is one serialized unit: while an /update has returned from
\* its internal stop and has not yet entered the critical section of its
\* internal start, no other thread is inside a critical section of start_gst
\* or stop_gst.
C2_ReplaceSerialized ==
  \A t \in Threads : BetweenStopAndStart(t) =>
    \A u \in Threads \ {t} : ~InCS(u)

\* C3: replace round trip: when the start_gst of an /update with a graph g
\* of at least one known feed has finished its critical section (the lock
\* still held, so no other request has acted since), the manager either
\* holds the handle of a worker running g and the update succeeds, or holds
\* nothing and the update fails; no worker spawned for another graph is alive.
C3_ReplaceRoundTrip ==
  \A t \in Threads :
    (pc[t] = "s_release" /\ kind[t] = "update" /\ HasKnownFeed(comp[t])) =>
      /\ \/ /\ GST_PROCESS # None
            /\ procs[GST_PROCESS].pipeline = GraphOf(t)
            /\ ret[t] = TRUE
         \/ /\ GST_PROCESS = None
            /\ ret[t] = FALSE
      /\ \A w \in Alive : procs[w].pipeline = GraphOf(t)

\* C4: start while Running is a no-op: when start_gst tests the handle and
\* finds one, it returns False, the handle and every worker stay as they
\* were, and the caller is answered with a failure.
C4_StartWhileRunningNoOp ==
  [][\A t \in Threads :
       /\ (pc[t] = "s_check" /\ GST_PROCESS # None /\ Moves(t)) =>
            /\ pc'[t] = "s_release"
            /\ ret'[t] = FALSE
            /\ GST_PROCESS' = GST_PROCESS
            /\ procs' = procs
       /\ (pc[t] = "s_release" /\ ~ret[t] /\ Moves(t)) =>
            /\ pc'[t] = "reply"
            /\ resp'[t].status # 200
            /\ (kind[t] = "start" => resp'[t] = Resp(400, "already running or error"))
            /\ GST_PROCESS' = GST_PROCESS
            /\ procs' = procs
    ]_vars
C4_Witness ==
  \E t \in Threads :
    /\ pc[t] = "reply" /\ kind[t] = "start" /\ HasKnownFeed(comp[t])
    /\ resp[t].status = 400
    /\ GST_PROCESS # None /\ procs[GST_PROCESS].alive

\* C5: lock discipline: a thread inside a lock-guarded section of start_gst
\* or stop_gst holds the lock, no two threads are inside such sections
\* together, and the handle changes only in a step of the lock's holder
\* taken inside its section.
C5_LockDiscipline ==
  /\ [](\A t \in Threads : InCS(t) => GST_LOCK = t)
  /\ [](Cardinality({ t \in Threads : InCS(t) }) <= 1)
  /\ [][GST_PROCESS' # GST_PROCESS =>
          /\ GST_LOCK \in Threads
          /\ InCS(GST_LOCK)
          /\ Moves(GST_LOCK)]_vars
C5_Witness ==
  \E t, u \in Threads :
    /\ t # u
    /\ pc[t] = "s_spawn"
    /\ pc[u] \in {"t_acquire", "s_acquire"}

\* the request before this one, with nothing in between, was a k answered r
Sent(k, r) == lastResp = [kind |-> k, resp |-> r]
\* C6: stop idempotence, requests one at a time: a /stop that follows a
\* successful /start or /update answers 200 "stopped", a /stop that follows
\* a /stop answered "stopped" answers 400 "not running", the handle is empty
\* when either answers, and a stop that runs while the handle is empty
\* changes neither the handle nor any worker.
C6_StopIdempotent ==
  [][\A t \in Threads :
       /\ (pc[t] = "reply" /\ kind[t] = "stop" /\ Moves(t)) =>
            /\ GST_PROCESS = None
            /\ resp[t] \in {Resp(200, "stopped"), Resp(400, "not running")}
            /\ (Sent("start", Resp(200, "started")) \/ Sent("update", Resp(200, "updated")))
                  => resp[t] = Resp(200, "stopped")
            /\ Sent("stop", Resp(200, "stopped")) => resp[t] = Resp(400, "not running")
            /\ Sent("stop", Resp(400, "not running")) => resp[t] = Resp(400, "not running")
       /\ (kind[t] = "stop" /\ GST_PROCESS = None /\ Moves(t)) =>
            /\ GST_PROCESS' = None
            /\ procs' = procs
    ]_vars
C6_Witness ==
  \E t \in Threads :
    /\ pc[t] = "reply" /\ kind[t] = "stop"
    /\ resp[t] = Resp(400, "not running")
    /\ Sent("stop", Resp(200, "stopped"))

\* C7: unconditional transition on stop: a stop that finds a handle goes on
\* to terminate it, and whatever terminate and wait do (exit, timeout,
\* error) it clears the handle, returns True and /stop answers 200.
C7_StopUnconditional ==
  [][\A t \in Threads :
       /\ (pc[t] = "t_check" /\ GST_PROCESS # None /\ Moves(t)) =>
            pc'[t] = "t_terminate"
       /\ (pc[t] = "t_terminate" /\ Moves(t)) =>
            pc'[t] = "t_clear" /\ GST_PROCESS' = GST_PROCESS
       /\ (pc[t] = "t_clear" /\ Moves(t)) =>
            pc'[t] = "t_release" /\ GST_PROCESS' = None /\ ret'[t] = TRUE
       /\ (pc[t] = "t_release" /\ Moves(t)) =>
            /\ GST_PROCESS = None
            /\ (kind[t] = "stop" /\ ret[t]) => resp'[t] = Resp(200, "stopped")
    ]_vars
\* the wait timed out: the signalled worker is alive, the handle is gone
C7_Witness ==
  \E t \in Threads :
    /\ pc[t] = "reply" /\ kind[t] = "stop"
    /\ resp[t] = Resp(200, "stopped")
    /\ GST_PROCESS = None
    /\ \E w \in Alive : procs[w].signals = 1

\* thread t takes the step in which its handler calls start_gst
CallsStartGst(t) ==
  \/ pc[t] = "idle" /\ kind'[t] = "start"
  \/ pc[t] = "u_validate" /\ comp'[t] # JList(<<>>)
\* C8: no valid feeds, no worker: when start_gst is called with a selection
\* that is empty or holds only names absent from the catalog (by /start, or
\* by /update with a non-empty list), it returns False from the build,
\* leaving the handle and the workers as they were; no thread reaches the
\* spawning section with such a selection and no worker runs a pipeline
\* without sources.
C8_NoValidFeedsNoWorker ==
  /\ [](\A t \in Threads :
          pc[t] \in {"s_acquire"} \cup StartSection => HasKnownFeed(comp[t]))
  /\ [](\A w \in Workers : procs[w].pipeline[1].stage = "rtspsrc")
  /\ [][\A t \in Threads :
          (Moves(t) /\ CallsStartGst(t) /\ NoKnownFeed(comp'[t])) =>
            /\ pc'[t] = "reply"
            /\ ret'[t] = FALSE
            /\ resp'[t] \in {StartResponse(FALSE), UpdateResponse(FALSE)}
            /\ GST_PROCESS' = GST_PROCESS
            /\ procs' = procs
     ]_vars
C8_Witness ==
  \E t \in Threads :
    /\ pc[t] = "reply" /\ kind[t] = "start"
    /\ comp[t] = JList(<<"cam9">>)
    /\ resp[t].status = 400
    /\ GST_PROCESS # None

\* C9: invalid update, requests one at a time: an /update whose composite is
\* missing, empty or not a list goes from its validation straight to the
\* answer 400 "invalid composite" without entering start_gst, and the handle
\* is empty when it answers.
C9_InvalidUpdate ==
  /\ [](\A t \in Threads :
          (kind[t] = "update" /\ Malformed(comp[t])) =>
            /\ pc[t] = "reply"
            /\ resp[t] = Resp(400, "invalid composite")
            /\ GST_PROCESS = None)
  /\ [][\A t \in Threads :
          (pc[t] = "u_validate" /\ Moves(t) /\ Malformed(comp'[t])) =>
            /\ pc'[t] = "reply"
            /\ GST_PROCESS' = GST_PROCESS
            /\ procs' = procs
     ]_vars
C9_Witness ==
  \E t \in Threads :
    /\ pc[t] = "reply" /\ kind[t] = "update"
    /\ comp[t] = JList(<<>>)
    /\ Sent("start", Resp(200, "started"))
    /\ procs # <<>> /\ procs[Len(procs)].signals = 1

\* C10: a no-valid-feeds failure is answered with a 4xx status by /start
\* and by /update alike, never with a 5xx.
C10_NoValidFeeds4xx ==
  \A t \in Threads :
    (/\ pc[t] = "reply"
     /\ NoKnownFeed(comp[t])
     /\ kind[t] = "start" \/ (kind[t] = "update" /\ comp[t] # JList(<<>>))) =>
      resp[t].status \in 400..499

\* thread t leaves start_gst's section after a spawn that failed: it returns
\* False and the handle, tested empty at line 95, is still empty
SpawnFailed(t) == pc[t] = "s_release" /\ ~ret[t] /\ GST_PROCESS = None
\* thread t leaves start_gst's section after finding a worker already running
FoundRunning(t) == pc[t] = "s_release" /\ ~ret[t] /\ GST_PROCESS # None
\* C11: failure responses distinguish their cause: a /start whose spawn
\* failed is answered with a 5xx status, and with an answer other than the
\* one for a worker already running and the one for invalid input.
C11_SpawnFailure5xx ==
  [][\A t \in Threads :
       (kind[t] = "start" /\ SpawnFailed(t) /\ Moves(t)) =>
         /\ resp'[t].status \in 500..599
         /\ resp'[t] # Resp(400, "already running or error")
         /\ resp'[t] # InvalidResponse
    ]_vars

SomeKnown(feeds, composite) ==
  \E i \in 1..Len(composite), j \in 1..Len(feeds) : feeds[j].name = composite[i]
\* the entries of the selection that name a feed of the catalog, in order
Retained(feeds, composite) ==
  SelectSeq(composite, LAMBDA n : \E j \in 1..Len(feeds) : feeds[j].name = n)
Built == build.state = "returned"
\* the parts of the built pipeline of one stage
PartsOf(stage) == { i \in 1..Len(build.pipeline) : build.pipeline[i].stage = stage }
\* the sink pads the compositor of the built pipeline positions
Sinks == build.pipeline[CHOOSE i \in PartsOf("compositor") : TRUE].sinks

UrlsOf(feeds, name) == { feeds[j].url : j \in { i \in 1..Len(feeds) : feeds[i].name = name } }
\* C14: selection filtering: the source chains of the built pipeline are,
\* one for one and in selection order, the entries of the selection whose
\* name is in the catalog, each with a url the catalog lists under that
\* name (the only one when names are unique); unknown names raise nothing
\* while a known one is there, and take no slot index: chain number i has
\* slot index i counted from 0 in the filtered list.
C14_SelectionFiltering ==
  /\ (build.state # "call" /\ SomeKnown(build.feeds, build.composite)) => Built
  /\ Built =>
       LET kept == Retained(build.feeds, build.composite) IN
       /\ PartsOf("rtspsrc") = 1..Len(kept)
       /\ \A i \in 1..Len(kept) :
            /\ build.pipeline[i].location \in UrlsOf(build.feeds, kept[i])
            /\ build.pipeline[i].queue = i - 1
       /\ (build.feeds = Catalog /\ build.composite = <<"cam1", "cam3", "cam9">>) =>
            /\ Len(kept) = 2
            /\ build.pipeline[1] = SourcePart(0, "rtsp://a")
            /\ build.pipeline[2] = SourcePart(1, "rtsp://c")
\* the scenario of the specification, and a selection whose unknown name
\* comes first
C14_Witness ==
  /\ Built
  /\ build.feeds = Catalog
  /\ build.composite \in { <<"cam1", "cam3", "cam9">>, <<"cam9", "cam3", "cam1">> }
  /\ PartsOf("rtspsrc") = {1, 2}

\* C17: graph structure: the built description is k source chains in slot
\* order, chain i ending in the queue named q{i}, the names pairwise
\* distinct, then one compositor and encode chain, then one transport
\* setting that carries the configured STUN server, or
\* stun:stun.l.google.com:19302 when none is configured; nothing else, in
\* this order, for every input the build accepts.
C17_GraphStructure ==
  Built =>
    LET k == Len(Retained(build.feeds, build.composite))
        p == build.pipeline
    IN /\ Len(p) = k + 2
       /\ \A i \in 1..k : p[i].stage = "rtspsrc" /\ p[i].queue = i - 1
       /\ \A i, j \in 1..k : p[i].queue = p[j].queue => i = j
       /\ p[k + 1].stage = "compositor"
       /\ p[k + 2].stage = "stun-server"
       /\ p[k + 2].server =
            IF build.webrtc = NoStun THEN "stun:stun.l.google.com:19302" ELSE build.webrtc
\* no STUN server configured, two feeds retained
C17_Witness ==
  /\ Built
  /\ build.webrtc = NoStun
  /\ Len(build.pipeline) = 4
  /\ build.pipeline[4] = [stage |-> "stun-server", server |-> "stun:stun.l.google.com:19302"]

\* --------------------------------------------------------- the manager
\* thread t takes the spawn step of start_gst (lines 98-105)
Spawns(t) == pc[t] = "s_spawn" /\ Moves(t)

\* C15: spawn failure keeps the manager Idle: start_gst reaches the spawn
\* only with an empty handle; a spawn step that adds no worker leaves the
\* handle empty and returns False, the caller is answered with a failure,
\* and a start that then tests the empty handle is not refused as already
\* running: it goes on to spawn.
C15_SpawnFailureKeepsIdle ==
  /\ [](\A t \in Threads : pc[t] = "s_spawn" => GST_PROCESS = None)
  /\ [][\A t \in Threads :
          /\ (Spawns(t) /\ Len(procs') = Len(procs)) =>
               /\ procs' = procs
               /\ GST_PROCESS' = None
               /\ ret'[t] = FALSE
               /\ pc'[t] = "s_release"
          /\ (SpawnFailed(t) /\ Moves(t)) =>
               /\ resp'[t].status # 200
               /\ GST_PROCESS' = None
          /\ (pc[t] = "s_check" /\ GST_PROCESS = None /\ Moves(t)) =>
               pc'[t] = "s_spawn"
     ]_vars
\* a start of known feeds is refused though no worker was ever spawned, so
\* its own spawn failed; the next start has passed the handle test
C15_Witness ==
  \E t, u \in Threads :
    /\ pc[u] = "reply" /\ kind[u] = "start" /\ HasKnownFeed(comp[u])
    /\ resp[u] = Resp(400, "already running or error")
    /\ procs = <<>>
    /\ pc[t] = "s_spawn" /\ kind[t] = "start"

\* every worker the manager no longer holds has exited: each terminate so
\* far made its worker exit
NoOrphan == \A w \in Alive : w = GST_PROCESS
\* C16: sequential update, requests one at a time: the result of the
\* internal stop is ignored, found a worker or not; an /update with a known
\* feed then enters start_gst and finds the handle empty; if its spawn
\* succeeds and every terminated worker has exited, the new worker is the
\* only one alive, it runs the graph of the new composite, the manager
\* holds it, and the answer is 200 "updated".
C16_SequentialUpdate ==
  /\ [](\A t \in Threads :
          (kind[t] = "update" /\ pc[t] \in {"s_acquire", "s_check", "s_spawn"}) =>
            GST_PROCESS = None /\ HasKnownFeed(comp[t]))
  /\ [][\A t \in Threads : kind[t] = "update" =>
          /\ (pc[t] = "t_release" /\ Moves(t)) => pc'[t] = "u_validate"
          /\ (pc[t] = "u_validate" /\ Moves(t) /\ HasKnownFeed(comp'[t])) =>
               pc'[t] = "s_acquire"
          /\ (Spawns(t) /\ Len(procs') = Len(procs) + 1) =>
               /\ ret'[t] = TRUE
               /\ GST_PROCESS' = Len(procs')
               /\ procs'[GST_PROCESS'].pipeline = GraphOf(t)
               /\ NoOrphan => Alive' = {GST_PROCESS'}
          /\ (pc[t] = "s_release" /\ ret[t] /\ Moves(t)) =>
               resp'[t] = Resp(200, "updated")
     ]_vars
  /\ [](\A t \in Threads :
          (pc[t] = "reply" /\ kind[t] = "update" /\ resp[t] = Resp(200, "updated")) =>
            /\ GST_PROCESS = Len(procs)
            /\ procs[GST_PROCESS].pipeline = GraphOf(t)
            /\ NoOrphan => Alive \subseteq {GST_PROCESS})
\* an update right after a successful start: the old worker was signalled
\* and has exited, the new one runs the new composite
C16_Witness ==
  \E t \in Threads :
    /\ pc[t] = "reply" /\ kind[t] = "update"
    /\ resp[t] = Resp(200, "updated")
    /\ Sent("start", Resp(200, "started"))
    /\ Len(procs) = 2 /\ GST_PROCESS = 2
    /\ procs[1].signals = 1 /\ ~procs[1].alive
    /\ procs[2].alive /\ procs[2].pipeline # procs[1].pipeline

OkResponses == { Resp(200, "started"), Resp(200, "updated") }
\* requests that have spawned a worker and have not sent their answer yet
PendingOk ==
  { t \in Threads : (pc[t] = "s_release" /\ ret[t])
                      \/ (pc[t] = "reply" /\ resp[t] \in OkResponses) }
\* a "started" or "updated" answer is sent in this step
SendsOk == \E t \in Threads : pc[t] = "reply" /\ resp[t] \in OkResponses /\ Moves(t)
\* C18: responses and spawns correspond one to one: a worker is added only
\* by the spawn step of a request that holds the lock, from the graph of
\* that request's own composite, and that request then returns True; a
\* "started" or "updated" answer is prepared only by a request that
\* returns True from such a spawn, "started" for /start and "updated" for
\* /update; and every step changes the number of workers spawned by as
\* much as it changes the number of such answers sent or pending, so the
\* two numbers, both zero at first, are always equal.
C18_ResponsesMatchSpawns ==
  /\ [][/\ Len(procs') # Len(procs) =>
             \E t \in Threads :
               /\ Spawns(t) /\ GST_LOCK = t
               /\ procs' = Append(procs, [alive |-> TRUE, pipeline |-> GraphOf(t), signals |-> 0])
               /\ GST_PROCESS' = Len(procs')
               /\ ret'[t] = TRUE
        /\ \A t \in Threads :
             (resp'[t] \in OkResponses /\ resp[t] \notin OkResponses) =>
               /\ pc[t] = "s_release" /\ ret[t]
               /\ resp'[t] = IF kind[t] = "start" THEN Resp(200, "started")
                                                  ELSE Resp(200, "updated")
        /\ Len(procs') - Len(procs) =
             Cardinality(PendingOk') - Cardinality(PendingOk) + (IF SendsOk THEN 1 ELSE 0)
       ]_vars
  /\ [](Cardinality(PendingOk) <= Len(procs))
\* two requests have each spawned a worker and both answers are pending
C18_Witness ==
  /\ Cardinality(PendingOk) = 2
  /\ Len(procs) = 2
  /\ \E t, u \in Threads :
       /\ pc[t] = "reply" /\ resp[t] = Resp(200, "started")
       /\ pc[u] = "reply" /\ resp[u] = Resp(200, "updated")

\* C19: the handle is never cleared by the worker exiting on its own: a
\* step in which no handler moves leaves the handle as it is, a handle is
\* given up only in the clearing step of a stop_gst (of /stop or /update),
\* and while the handle is held, its worker exited or not, a start_gst that
\* tests it returns False, spawns nothing, and /start answers 400 "already
\* running or error".
C19_HandleOutlivesWorker ==
  [][/\ (\A t \in Threads : ~Moves(t)) => GST_PROCESS' = GST_PROCESS
     /\ (GST_PROCESS # None /\ GST_PROCESS' # GST_PROCESS) =>
          \E t \in Threads :
            pc[t] = "t_clear" /\ Moves(t) /\ kind[t] \in {"stop", "update"}
     /\ \A t \in Threads :
          /\ (pc[t] = "s_check" /\ GST_PROCESS # None /\ Moves(t)) =>
               /\ pc'[t] = "s_release" /\ ret'[t] = FALSE
               /\ procs' = procs /\ GST_PROCESS' = GST_PROCESS
          /\ (kind[t] = "start" /\ FoundRunning(t) /\ Moves(t)) =>
               /\ resp'[t] = Resp(400, "already running or error")
               /\ procs' = procs /\ GST_PROCESS' = GST_PROCESS
    ]_vars
\* the held worker has exited without ever being signalled, and a /start
\* of known feeds is refused
C19_Witness ==
  \E t \in Threads :
    /\ pc[t] = "reply" /\ kind[t] = "start" /\ HasKnownFeed(comp[t])
    /\ resp[t] = Resp(400, "already running or error")
    /\ GST_PROCESS # None
    /\ ~procs[GST_PROCESS].alive /\ procs[GST_PROCESS].signals = 0
    /\ Alive = {}

\* C20: each worker is asked to terminate at most once: no worker is
\* signalled twice; a worker is signalled only while it is the held one, by
\* the terminate step of a stop_gst, whose next step drops the handle; and
\* the handle is only ever set to a worker spawned in that very step, so a
\* worker once dropped, alive or not, is never held, signalled or waited for
\* again.
C20_TerminateAtMostOnce ==
  /\ [](\A w \in Workers : procs[w].signals <= 1)
  /\ [](\A w \in Workers :
          (procs[w].signals = 1 /\ GST_PROCESS = w) =>
            \E t \in Threads : pc[t] = "t_clear")
  /\ [][/\ \A w \in Workers :
             procs'[w].signals # procs[w].signals =>
               /\ w = GST_PROCESS
               /\ \E t \in Threads : pc[t] = "t_terminate" /\ Moves(t)
        /\ \A t \in Threads :
             /\ (pc[t] = "t_terminate" /\ Moves(t)) => pc'[t] = "t_clear"
             /\ (pc[t] = "t_clear" /\ Moves(t)) => GST_PROCESS' = None
        /\ (GST_PROCESS' # GST_PROCESS /\ GST_PROCESS' # None) =>
             /\ Len(procs') = Len(procs) + 1
             /\ GST_PROCESS' = Len(procs')
       ]_vars
\* the first worker outlived its terminate and is alive and unheld while a
\* later stop has signalled the second
C20_Witness ==
  \E t \in Threads :
    /\ pc[t] = "t_clear" /\ GST_PROCESS = 2
    /\ procs[1].alive /\ procs[1].signals = 1
    /\ procs[2].signals = 1
====
